---- MODULE Spec2Model ----
(***************************************************************************)
(* A model of the word2vec notebook (src/unnamed/part_000): the            *)
(* context-pair generation cells, the EarlyStopping class, the training    *)
(* loop, the vocabulary, get_batches, the negative sampler, the            *)
(* negative-sampling loss and get_closest_word.                            *)
(*                                                                         *)
(* Python lists are TLA+ sequences; a Python index k is the TLA+ index     *)
(* k+1 (see At).  Floating-point losses are exact rationals [num, den];    *)
(* the float nan is the rational 0/0 (den = 0).                            *)
(***************************************************************************)
EXTENDS Integers, Sequences, FiniteSets, TLC

VARIABLES
    raw_corpus,          \* the corpus as loaded (lines 60-69), before subsampling
    corpus,              \* the notebook global `corpus` (list of documents)
    w,                   \* the notebook global `w` (window half-width)
    context_tuple_list,  \* the notebook global `context_tuple_list`
    appended_at,         \* the loop variables <<text number, i, j>> at each append
    cell,                \* which cell of the notebook is running
    patience,            \* EarlyStopping.patience
    min_percent_gain,    \* EarlyStopping.min_percent_gain (the argument / 100)
    loss_list,           \* EarlyStopping.loss_list
    arg_min_percent_gain,\* the min_percent_gain argument the constructor got
    fed,                 \* every loss passed to update_loss so far, in order
    stop_result,         \* what stop_training returned since the last update_loss
    vocabulary,          \* the notebook global `vocabulary`, a set, as the
                         \* sequence of its words in the order it iterates
    word_to_index,       \* the notebook global `word_to_index`
    index_to_word,       \* the notebook global `index_to_word`
    batch_size,          \* the batch_size the training loop passes to get_batches
    context_tuple_batches, \* the training loop's `context_tuple_batches`
    batch_i,             \* the training loop's `i`: batches done in this epoch
    losses,              \* the training loop's `losses`
    embeddings_target,   \* Word2Vec.embeddings_target: index -> vector
    embeddings_context,  \* Word2Vec.embeddings_context: index -> vector
    forward_args,        \* the (target_word, context_word, negative_example) of a call
    forward_out,         \* <<what Word2Vec.forward returned>>, in thousandths
    closest_args,        \* the (word, topn) of a get_closest_word call
    closest_out,         \* <<what get_closest_word returned>>
    negative_samples     \* the generator object sample_negative(sample_size) returns

pairVars == <<corpus, w, context_tuple_list, appended_at>>

esVars == <<patience, min_percent_gain, loss_list, arg_min_percent_gain, fed,
            stop_result>>

trainVars == <<vocabulary, word_to_index, index_to_word, batch_size,
               context_tuple_batches, batch_i, losses>>

netVars == <<embeddings_target, embeddings_context, forward_args, forward_out,
             closest_args, closest_out>>

prepVars == <<raw_corpus, negative_samples>>

vars == <<pairVars, cell, esVars, trainVars, netVars, prepVars>>

(***************************************************************************)
(* Bounds of the model.                                                    *)
(***************************************************************************)
MaxTokens == 4        \* tokens in a corpus, all documents together
MaxDocs == 2          \* documents in a corpus
MaxWindow == 2        \* window half-widths 1..MaxWindow
MaxPatience == 5      \* patience 1..MaxPatience
MaxFed == 5           \* update_loss calls on one EarlyStopping object
MaxEpochs == 3        \* epochs of a training run the model follows
MaxTrainPairs == 2    \* context triples in a training run's list
MaxBatchSize == 2     \* batch_size 1..MaxBatchSize
MaxDim == 2           \* embedding_size 1..MaxDim
MaxRows == 2          \* rows of a batch given to forward
MaxNeg == 2           \* negatives per row given to forward
MaxPrepTokens == 3    \* tokens in a corpus that goes through the whole preparation
MaxPrepDocs == 2      \* documents in such a corpus
MaxBatchPairs == 4    \* context triples in a list given to get_batches alone

Tokens == {"a", "b", "c"}

(***************************************************************************)
(* Python builtins.                                                        *)
(***************************************************************************)
Max(a, b) == IF a >= b THEN a ELSE b

Min(a, b) == IF a <= b THEN a ELSE b

At(list, k) == list[k + 1]

Range(list) == {list[n] : n \in 1..Len(list)}

RECURSIVE SumSeq(_)
SumSeq(s) == IF s = <<>> THEN 0 ELSE Head(s) + SumSeq(Tail(s))

RECURSIVE Chain(_)
Chain(c) == IF c = <<>> THEN <<>> ELSE Head(c) \o Chain(Tail(c))

(***************************************************************************)
(* The corpora the model starts from: every split of every token sequence  *)
(* of at most MaxTokens tokens into at most MaxDocs documents (documents   *)
(* may be empty), and the five-token document of the notebook's example.   *)
(***************************************************************************)
LenSeqs(minLen, maxTokens, maxDocs) ==
    {ls \in UNION {[1..k -> minLen..maxTokens] : k \in 0..maxDocs} :
        SumSeq(ls) <= maxTokens}

Offset(ls, d) == SumSeq(SubSeq(ls, 1, d - 1))

Split(flat, ls) ==
    [d \in 1..Len(ls) |-> SubSeq(flat, Offset(ls, d) + 1, Offset(ls, d) + ls[d])]

CorporaOf(tokens, minLen, maxTokens, maxDocs) ==
    UNION {{Split(flat, ls) : flat \in [1..SumSeq(ls) -> tokens]} :
           ls \in LenSeqs(minLen, maxTokens, maxDocs)}

\* The corpora pair generation is run on: documents may be empty, as they
\* can be after subsampling.
Corpora == CorporaOf(Tokens, 0, MaxTokens, MaxDocs)

ExampleCorpus == <<(<<"a", "b", "c", "d", "e">>)>>

Windows == 1..MaxWindow

(***************************************************************************)
(* Context-pair generation: the loops of the cells at lines 193-203 and    *)
(* 484-495.  LoopJ, LoopI and LoopText are the three nested loops; they    *)
(* yield the positions <<d, i, j>> (d the document's number from 1, i and  *)
(* j the Python indices) in the order the loops append.                    *)
(***************************************************************************)
first_context_word_index(i, ww) == Max(0, i - ww)

last_context_word_index_incl(i, ww, n) == Min(i + ww + 1, n)

last_context_word_index(i, ww, n) == Min(i + ww, n)

KeepAny(i, j) == TRUE

KeepPosition(i, j) == i # j

RECURSIVE LoopJ(_, _, _, _)
LoopJ(d, i, j, last) ==
    IF j >= last THEN <<>>
    ELSE (IF KeepPosition(i, j) THEN <<(<<d, i, j>>)>> ELSE <<>>)
         \o LoopJ(d, i, j + 1, last)

RECURSIVE LoopI(_, _, _, _)
LoopI(text, d, i, ww) ==
    IF i >= Len(text) THEN <<>>
    ELSE LoopJ(d, i, first_context_word_index(i, ww),
               last_context_word_index(i, ww, Len(text)))
         \o LoopI(text, d, i + 1, ww)

RECURSIVE LoopText(_, _, _)
LoopText(c, d, ww) ==
    IF d > Len(c) THEN <<>>
    ELSE LoopI(c[d], d, 0, ww) \o LoopText(c, d + 1, ww)

Appends(c, ww) == LoopText(c, 1, ww)

(***************************************************************************)
(* Floats as exact rationals.  Denominators are never negative; 0/0 is     *)
(* nan, and every comparison with nan is false, as in Python.              *)
(***************************************************************************)
Rat(n, d) == [num |-> n, den |-> d]

IsNaN(x) == x.den = 0

Abs(n) == IF n < 0 THEN -n ELSE n

RECURSIVE GCD(_, _)
GCD(a, b) == IF b = 0 THEN a ELSE GCD(b, a % b)

Reduce(x) ==
    IF x.den = 0 THEN Rat(0, 0)
    ELSE LET g == GCD(Abs(x.num), Abs(x.den))
             s == IF x.den < 0 THEN -1 ELSE 1
         IN Rat(s * (x.num \div g), s * (x.den \div g))

Lt(a, b) == ~IsNaN(a) /\ ~IsNaN(b) /\ a.num * b.den < b.num * a.den

Gt(a, b) == Lt(b, a)

RSub(a, b) ==
    IF IsNaN(a) \/ IsNaN(b) THEN Rat(0, 0)
    ELSE Reduce(Rat(a.num * b.den - b.num * a.den, a.den * b.den))

RDiv(a, b) ==
    IF IsNaN(a) \/ IsNaN(b) THEN Rat(0, 0)
    ELSE Reduce(Rat(a.num * b.den, a.den * b.num))

\* max(list) and min(list): keep the first item, replace it by a later item
\* that compares greater (less) than it.
RECURSIVE PyMaxFrom(_, _, _)
PyMaxFrom(list, k, m) ==
    IF k > Len(list) THEN m
    ELSE PyMaxFrom(list, k + 1, IF Gt(list[k], m) THEN list[k] ELSE m)

PyMax(list) == PyMaxFrom(list, 2, list[1])

RECURSIVE PyMinFrom(_, _, _)
PyMinFrom(list, k, m) ==
    IF k > Len(list) THEN m
    ELSE PyMinFrom(list, k + 1, IF Lt(list[k], m) THEN list[k] ELSE m)

PyMin(list) == PyMinFrom(list, 2, list[1])

(***************************************************************************)
(* class EarlyStopping (lines 278-297).                                    *)
(***************************************************************************)
InitGainUnscaled(arg) == arg

InitGain(arg) == RDiv(arg, Rat(100, 1))

UpdateLossDropNewest(list, loss, p) ==
    IF Len(list) + 1 > p THEN list ELSE Append(list, loss)

UpdateLoss(list, loss, p) ==
    LET appended == Append(list, loss)
    IN IF Len(appended) > p THEN Tail(appended) ELSE appended

GainAbove(gain, threshold) == Gt(gain, threshold)

GainBelow(gain, threshold) == Lt(gain, threshold)

\* stop_training's outcome: "True", "False", or the exception it raises.
\* stop_training without its early return for a single loss.
StopTrainingNoGuard(list, threshold) ==
    IF Len(list) = 0 THEN "ValueError"
    ELSE IF IsNaN(PyMax(list)) \/ IsNaN(PyMin(list)) THEN "False"
    ELSE IF PyMax(list).num = 0 THEN "ZeroDivisionError"
    ELSE LET gain == RDiv(RSub(PyMax(list), PyMin(list)), PyMax(list))
         IN IF GainBelow(gain, threshold) THEN "True" ELSE "False"

StopTraining(list, threshold) ==
    IF Len(list) = 1 THEN "False"
    ELSE IF Len(list) = 0 THEN "ValueError"
    ELSE IF IsNaN(PyMax(list)) \/ IsNaN(PyMin(list)) THEN "False"
    ELSE IF PyMax(list).num = 0 THEN "ZeroDivisionError"
    ELSE LET gain == RDiv(RSub(PyMax(list), PyMin(list)), PyMax(list))
         IN IF GainBelow(gain, threshold) THEN "True" ELSE "False"

\* The losses and arguments the model feeds: the notebook's defaults and the
\* values of its example, 10, 9, 8.5, 8.4, 8.39.
LossValues == {Rat(n, 100) : n \in {1000, 900, 850, 840, 839}}

MinPercentGainArgs == {Rat(1, 10), Rat(1, 1)}

EsIdle ==
    /\ patience = 0
    /\ min_percent_gain = Rat(0, 1)
    /\ arg_min_percent_gain = Rat(0, 1)
    /\ loss_list = <<>>
    /\ fed = <<>>
    /\ stop_result = "none"

PairIdle ==
    /\ corpus = <<>>
    /\ w = 0
    /\ context_tuple_list = <<>>
    /\ appended_at = <<>>

EarlyStoppingNew ==
    /\ patience \in 1..MaxPatience
    /\ arg_min_percent_gain \in MinPercentGainArgs
    /\ min_percent_gain = InitGain(arg_min_percent_gain)
    /\ loss_list = <<>>
    /\ fed = <<>>
    /\ stop_result = "none"

TrainIdle ==
    /\ vocabulary = <<>>
    /\ word_to_index = <<>>
    /\ index_to_word = <<>>
    /\ batch_size = 0
    /\ context_tuple_batches = <<>>
    /\ batch_i = 0
    /\ losses = <<>>

PrepIdle ==
    /\ raw_corpus = <<>>
    /\ negative_samples = <<>>

NetIdle ==
    /\ embeddings_target = <<>>
    /\ embeddings_context = <<>>
    /\ forward_args = <<>>
    /\ forward_out = <<>>
    /\ closest_args = <<>>
    /\ closest_out = <<>>

EsInit ==
    /\ PairIdle
    /\ TrainIdle
    /\ NetIdle
    /\ PrepIdle
    /\ cell = "early_stopping"
    /\ EarlyStoppingNew

update_loss ==
    /\ cell = "early_stopping"
    /\ Len(fed) < MaxFed
    /\ \E loss \in LossValues :
          /\ loss_list' = UpdateLoss(loss_list, loss, patience)
          /\ fed' = Append(fed, loss)
    /\ stop_result' = "none"
    /\ UNCHANGED <<pairVars, cell, patience, min_percent_gain, arg_min_percent_gain,
                   trainVars, netVars, prepVars>>

stop_training ==
    /\ cell = "early_stopping"
    /\ stop_result' = StopTraining(loss_list, min_percent_gain)
    /\ UNCHANGED <<pairVars, cell, patience, min_percent_gain, arg_min_percent_gain,
                   loss_list, fed, trainVars, netVars, prepVars>>

EsNext == update_loss \/ stop_training

SpecES == EsInit /\ [][EsNext]_vars

(***************************************************************************)
(* The cell at lines 193-203: one append of (word, text[j]).               *)
(***************************************************************************)
PairsInit ==
    /\ \/ corpus \in Corpora
       \/ corpus = ExampleCorpus
    /\ w \in Windows
    /\ context_tuple_list = <<>>
    /\ appended_at = <<>>
    /\ cell = "pairs"
    /\ EsIdle
    /\ TrainIdle
    /\ NetIdle
    /\ PrepIdle

AppendPair ==
    /\ cell = "pairs"
    /\ Len(context_tuple_list) < Len(Appends(corpus, w))
    /\ LET p == Appends(corpus, w)[Len(context_tuple_list) + 1]
           text == corpus[p[1]]
           word == At(text, p[2])
       IN /\ context_tuple_list' = Append(context_tuple_list, <<word, At(text, p[3])>>)
          /\ appended_at' = Append(appended_at, p)
    /\ UNCHANGED <<corpus, w, cell, esVars, trainVars, netVars, prepVars>>

PairsDone ==
    /\ cell = "pairs"
    /\ Len(context_tuple_list) = Len(Appends(corpus, w))
    /\ cell' = "pairs_done"
    /\ UNCHANGED <<pairVars, esVars, trainVars, netVars, prepVars>>

PairsNext == AppendPair \/ PairsDone

SpecPairs == PairsInit /\ [][PairsNext]_vars

(***************************************************************************)
(* The vocabulary cell (lines 123-126).  A Python set iterates its members *)
(* in an order of its own, the same at every pass over the unchanged set;  *)
(* a dictionary is a function from its keys.                               *)
(***************************************************************************)
SetOrders(set) == {s \in [1..Cardinality(set) -> set] : Range(s) = set}

\* enumerate(order): the items (idx, w), idx from 0.
Enumerate(order) == [n \in 1..Len(order) |-> <<n - 1, order[n]>>]

\* {key: value for ... in items}: a later item replaces an equal key.
RECURSIVE DictOf(_, _)
DictOf(items, d) ==
    IF items = <<>> THEN d
    ELSE LET key == Head(items)[1]
             value == Head(items)[2]
         IN DictOf(Tail(items),
                   [x \in DOMAIN d \cup {key} |-> IF x = key THEN value ELSE d[x]])

\* Numbering the words from 1.
WordToIndexFromOne(order) ==
    DictOf([n \in 1..Len(order) |-> <<Enumerate(order)[n][2], Enumerate(order)[n][1] + 1>>],
           <<>>)

\* {w: idx for (idx, w) in enumerate(vocabulary)}
WordToIndex(order) ==
    DictOf([n \in 1..Len(order) |-> <<Enumerate(order)[n][2], Enumerate(order)[n][1]>>],
           <<>>)

\* {idx: w for (idx, w) in enumerate(vocabulary)}
IndexToWord(order) == DictOf(Enumerate(order), <<>>)

(***************************************************************************)
(* get_batches (lines 387-401) and the training loop (lines 582-595; the   *)
(* loop at lines 339-351 has the same shape with one pair per step).       *)
(* The network's forward pass, backward pass and optimizer step are the    *)
(* backend's: each batch yields some positive loss.                        *)
(***************************************************************************)
Shuffles(list) ==
    {[n \in 1..Len(list) |-> list[f[n]]] :
        f \in {g \in [1..Len(list) -> 1..Len(list)] :
                  \A m, n \in 1..Len(list) : m # n => g[m] # g[n]}}

RECURSIVE BatchLoop(_, _, _, _, _, _)
BatchLoop(list, i, batch, batches, size, w2i) ==
    IF i >= Len(list) THEN batches
    ELSE LET t == At(list, i)
             filled == [target |-> Append(batch.target, w2i[t[1]]),
                        context |-> Append(batch.context, w2i[t[2]]),
                        negative |-> Append(batch.negative,
                                            [n \in 1..Len(t[3]) |-> w2i[t[3][n]]])]
             empty == [target |-> <<>>, context |-> <<>>, negative |-> <<>>]
         IN IF (i + 1) % size = 0 \/ i = Len(list) - 1
            THEN BatchLoop(list, i + 1, empty, Append(batches, filled), size, w2i)
            ELSE BatchLoop(list, i + 1, filled, batches, size, w2i)

\* A loop that closes a batch only when it is full.
RECURSIVE BatchLoopFullOnly(_, _, _, _, _, _)
BatchLoopFullOnly(list, i, batch, batches, size, w2i) ==
    IF i >= Len(list) THEN batches
    ELSE LET t == At(list, i)
             filled == [target |-> Append(batch.target, w2i[t[1]]),
                        context |-> Append(batch.context, w2i[t[2]]),
                        negative |-> Append(batch.negative,
                                            [n \in 1..Len(t[3]) |-> w2i[t[3][n]]])]
             empty == [target |-> <<>>, context |-> <<>>, negative |-> <<>>]
         IN IF (i + 1) % size = 0
            THEN BatchLoopFullOnly(list, i + 1, empty, Append(batches, filled), size, w2i)
            ELSE BatchLoopFullOnly(list, i + 1, filled, batches, size, w2i)

GetBatchesFullOnly(shuffled, size, w2i) ==
    BatchLoopFullOnly(shuffled, 0, [target |-> <<>>, context |-> <<>>, negative |-> <<>>],
                      <<>>, size, w2i)

\* The batches get_batches returns for the already shuffled list.
GetBatches(shuffled, size, w2i) ==
    BatchLoop(shuffled, 0, [target |-> <<>>, context |-> <<>>, negative |-> <<>>],
              <<>>, size, w2i)

RAdd(a, b) ==
    IF IsNaN(a) \/ IsNaN(b) THEN Rat(0, 0)
    ELSE Reduce(Rat(a.num * b.den + b.num * a.den, a.den * b.den))

RECURSIVE RSum(_)
RSum(list) == IF list = <<>> THEN Rat(0, 1) ELSE RAdd(Head(list), RSum(Tail(list)))

\* np.mean: the sum over the count; nan (0/0) for an empty list.
Mean(list) == RDiv(RSum(list), Rat(Len(list), 1))

BreakOrEpochCap(result, epochs) == result = "True" \/ epochs >= 2

Break(result, epochs) == result = "True"

BatchLosses == {Rat(200, 1), Rat(199, 1)}

TrainTriples == {<<"a", "b", <<"a", "b">> >>, <<"b", "a", <<"b", "b">> >>}

TrainLists == UNION {[1..n -> TrainTriples] : n \in 0..MaxTrainPairs}

\* The state before the loop: the triples, the vocabulary and a fresh
\* EarlyStopping object (lines 331 and 580).
TrainInit ==
    /\ corpus = <<>>
    /\ w = 0
    /\ appended_at = <<>>
    /\ context_tuple_list \in TrainLists
    /\ vocabulary \in SetOrders({"a", "b"})
    /\ word_to_index = WordToIndex(vocabulary)
    /\ index_to_word = IndexToWord(vocabulary)
    /\ batch_size \in 1..MaxBatchSize
    /\ context_tuple_batches = <<>>
    /\ batch_i = 0
    /\ losses = <<>>
    /\ EarlyStoppingNew
    /\ NetIdle
    /\ PrepIdle
    /\ cell = "INIT"

\* Lines 582-584: the top of `while True`.
EpochStart ==
    /\ cell \in {"INIT", "while"}
    /\ Len(fed) < MaxEpochs
    /\ losses' = <<>>
    /\ \E shuffled \in Shuffles(context_tuple_list) :
          /\ context_tuple_list' = shuffled
          /\ context_tuple_batches' = GetBatches(shuffled, batch_size, word_to_index)
    /\ batch_i' = 0
    /\ cell' = "for"
    /\ UNCHANGED <<corpus, w, appended_at, esVars, vocabulary, word_to_index,
                   index_to_word, batch_size, netVars, prepVars>>

\* Lines 585-591: one batch.
TrainBatch ==
    /\ cell = "for"
    /\ batch_i < Len(context_tuple_batches)
    /\ \E loss \in BatchLosses : losses' = Append(losses, loss)
    /\ batch_i' = batch_i + 1
    /\ UNCHANGED <<pairVars, cell, esVars, vocabulary, word_to_index, index_to_word,
                   batch_size, context_tuple_batches, netVars, prepVars>>

\* Lines 592-595: the end of the epoch.
EpochEnd ==
    /\ cell = "for"
    /\ batch_i = Len(context_tuple_batches)
    /\ loss_list' = UpdateLoss(loss_list, Mean(losses), patience)
    /\ fed' = Append(fed, Mean(losses))
    /\ stop_result' = StopTraining(loss_list', min_percent_gain)
    /\ cell' = IF stop_result' \notin {"True", "False"} THEN stop_result'
               ELSE IF Break(stop_result', Len(fed')) THEN "STOPPED"
               ELSE "while"
    /\ UNCHANGED <<pairVars, patience, min_percent_gain, arg_min_percent_gain,
                   trainVars, netVars, prepVars>>

TrainNext == EpochStart \/ TrainBatch \/ EpochEnd

SpecTrain == TrainInit /\ [][TrainNext]_vars

(***************************************************************************)
(* One call of get_batches (lines 387-401) on a list of context triples.   *)
(***************************************************************************)
BatchTriples == TrainTriples \cup {<<"a", "a", <<"b", "a">> >>}

BatchLists == UNION {[1..n -> BatchTriples] : n \in 0..MaxBatchPairs}

BatchesInit ==
    /\ corpus = <<>>
    /\ w = 0
    /\ appended_at = <<>>
    /\ context_tuple_list \in BatchLists
    /\ vocabulary \in SetOrders({"a", "b"})
    /\ word_to_index = WordToIndex(vocabulary)
    /\ index_to_word = IndexToWord(vocabulary)
    /\ batch_size \in 1..MaxBatchSize
    /\ context_tuple_batches = <<>>
    /\ batch_i = 0
    /\ losses = <<>>
    /\ EsIdle
    /\ NetIdle
    /\ PrepIdle
    /\ cell = "get_batches"

\* context_tuple_batches = get_batches(context_tuple_list, batch_size)
call_get_batches ==
    /\ cell = "get_batches"
    /\ \E shuffled \in Shuffles(context_tuple_list) :
          /\ context_tuple_list' = shuffled
          /\ context_tuple_batches' = GetBatches(shuffled, batch_size, word_to_index)
    /\ cell' = "batched"
    /\ UNCHANGED <<corpus, w, appended_at, esVars, vocabulary, word_to_index,
                   index_to_word, batch_size, batch_i, losses, netVars, prepVars>>

BatchesNext == call_get_batches

SpecBatches == BatchesInit /\ [][BatchesNext]_vars

(***************************************************************************)
(* class Word2Vec with negative sampling (lines 533-550).  A tensor is a   *)
(* sequence (of sequences); embedding values are integers.  F.logsigmoid   *)
(* is given in thousandths, rounded, so the loss is in thousandths too.    *)
(***************************************************************************)
LogSigmoidMilli(z) ==
    IF z >= 8 THEN 0
    ELSE IF z <= -8 THEN 1000 * z
    ELSE LET pos == <<-313, -127, -49, -18, -7, -2, -1>>
         IN IF z = 0 THEN -693
            ELSE IF z > 0 THEN pos[z]
            ELSE pos[-z] + 1000 * z

\* nn.Embedding: the rows of the table at the given indices.
Embedding(table, indices) == [b \in 1..Len(indices) |-> table[indices[b]]]

\* nn.Embedding on a [B, k] index tensor.
Embedding2(table, indices) ==
    [b \in 1..Len(indices) |-> [n \in 1..Len(indices[b]) |-> table[indices[b][n]]]]

\* torch.mul on two [B, D] tensors.
TorchMul(x, y) == [b \in 1..Len(x) |-> [d \in 1..Len(x[b]) |-> x[b][d] * y[b][d]]]

\* torch.sum(x, dim=1) on a [B, D] tensor: a [B] tensor.
TorchSumDim1(x) == [b \in 1..Len(x) |-> SumSeq(x[b])]

\* emb_target.unsqueeze(2): [B, D] becomes [B, D, 1].
Unsqueeze2(x) == [b \in 1..Len(x) |-> [d \in 1..Len(x[b]) |-> <<x[b][d]>>]]

\* torch.bmm of [B, k, D] with [B, D, 1]: a [B, k, 1] tensor.
TorchBmm(x, y) ==
    [b \in 1..Len(x) |->
        [n \in 1..Len(x[b]) |->
            <<SumSeq([d \in 1..Len(x[b][n]) |-> x[b][n][d] * y[b][d][1]])>>]]

\* torch.sum(x, dim=1) on a [B, k, 1] tensor: a [B, 1] tensor.
TorchSumDim1Of3(x) ==
    [b \in 1..Len(x) |-> <<SumSeq([n \in 1..Len(x[b]) |-> x[b][n][1]])>>]

\* torch.sum(F.logsigmoid(x)) on a [B] tensor.
SumLogSigmoid(x) == SumSeq([b \in 1..Len(x) |-> LogSigmoidMilli(x[b])])

\* torch.sum(F.logsigmoid(-x)) on a [B, m] tensor.
SumLogSigmoidNeg(x) ==
    SumSeq([b \in 1..Len(x) |->
               SumSeq([n \in 1..Len(x[b]) |-> LogSigmoidMilli(-x[b][n])])])

Forward(target_word, context_word, negative_example) ==
    LET emb_target == Embedding(embeddings_target, target_word)
        emb_context == Embedding(embeddings_context, context_word)
        emb_product == TorchSumDim1(TorchMul(emb_target, emb_context))
        out == SumLogSigmoid(emb_product)
        emb_negative == Embedding2(embeddings_context, negative_example)
        neg_product == TorchSumDim1Of3(TorchBmm(emb_negative, Unsqueeze2(emb_target)))
    IN -(out + SumLogSigmoidNeg(neg_product))

EmbeddingValues == {-1, 1}

Vectors(dim) == [1..dim -> EmbeddingValues]

\* Tables over the two vocabulary indices 0 and 1.
EmbeddingTables(dim) == [0..1 -> Vectors(dim)]

ForwardArgs ==
    UNION {[target : [1..rows -> 0..1], context : [1..rows -> 0..1],
            negative : [1..rows -> [1..k -> 0..1]]] :
           rows \in 1..MaxRows, k \in 1..MaxNeg}

NetInit ==
    /\ PairIdle
    /\ EsIdle
    /\ TrainIdle
    /\ PrepIdle
    /\ cell = "net"
    /\ \E dim \in 1..MaxDim :
          /\ embeddings_target \in EmbeddingTables(dim)
          /\ embeddings_context \in EmbeddingTables(dim)
    /\ forward_args \in ForwardArgs
    /\ forward_out = <<>>
    /\ closest_args = <<>>
    /\ closest_out = <<>>

forward ==
    /\ cell = "net"
    /\ forward_out = <<>>
    /\ forward_out' = <<Forward(forward_args.target, forward_args.context,
                                forward_args.negative)>>
    /\ UNCHANGED <<pairVars, cell, esVars, trainVars, embeddings_target,
                   embeddings_context, forward_args, closest_args, closest_out,
                   prepVars>>

NetNext == forward

SpecNet == NetInit /\ [][NetNext]_vars

(***************************************************************************)
(* get_closest_word (lines 618-631).  nn.PairwiseDistance() is the         *)
(* 2-norm of v_i - v_j + eps with eps = 1e-6.  Its square is               *)
(* sum (v_i - v_j)^2 + 2 eps sum (v_i - v_j) + D eps^2, so for the small   *)
(* integer embedding values of the model a distance is the pair            *)
(* <<sum of squared differences, sum of differences>>, ordered by its      *)
(* first entry and then by its second.                                     *)
(***************************************************************************)
PairwiseDistance(v_i, v_j) ==
    <<SumSeq([d \in 1..Len(v_i) |-> (v_i[d] - v_j[d]) * (v_i[d] - v_j[d])]),
      SumSeq([d \in 1..Len(v_i) |-> v_i[d] - v_j[d]])>>

\* float <
DistanceLt(x, y) == x[1] < y[1] \/ (x[1] = y[1] /\ x[2] < y[2])

\* Lines 626-630: the loop over j in range(len(vocabulary)).
RECURSIVE ClosestLoop(_, _, _)
ClosestLoop(i, j, word_distance) ==
    IF j >= Len(vocabulary) THEN word_distance
    ELSE IF j # i
         THEN ClosestLoop(i, j + 1,
                  Append(word_distance,
                         <<index_to_word[j],
                           PairwiseDistance(embeddings_target[i], embeddings_target[j])>>))
         ELSE ClosestLoop(i, j + 1, word_distance)

\* An insertion that puts the item before the items of equal key.
InsertBeforeEqual(sorted, item) ==
    LET before == {n \in 1..Len(sorted) : DistanceLt(sorted[n][2], item[2])}
        k == Cardinality(before)
    IN SubSeq(sorted, 1, k) \o <<item>> \o SubSeq(sorted, k + 1, Len(sorted))

\* list.sort is stable: an item goes after every item whose key is not
\* greater than its own.
Insert(sorted, item) ==
    LET before == {n \in 1..Len(sorted) : ~DistanceLt(item[2], sorted[n][2])}
        k == Cardinality(before)
    IN SubSeq(sorted, 1, k) \o <<item>> \o SubSeq(sorted, k + 1, Len(sorted))

\* word_distance.sort(key=lambda x: x[1])
RECURSIVE SortByDistance(_, _)
SortByDistance(list, sorted) ==
    IF list = <<>> THEN sorted
    ELSE SortByDistance(Tail(list), Insert(sorted, Head(list)))

\* list[:n] for n >= 0.
Slice(list, n) == SubSeq(list, 1, Min(n, Len(list)))

get_closest_word(word, topn) ==
    Slice(SortByDistance(ClosestLoop(word_to_index[word], 0, <<>>), <<>>), topn)

ClosestWords == <<"a", "b", "c", "d">>

\* The vocabulary sizes and embedding sizes of the model's calls.
ClosestShapes == {<<1, 1>>, <<2, 1>>, <<3, 1>>, <<4, 1>>, <<2, 2>>, <<3, 2>>}

ClosestValues == {-1, 0, 1}

TopnValues == {0, 1, 2, 3, 5}

ClosestInit ==
    /\ PairIdle
    /\ EsIdle
    /\ PrepIdle
    /\ cell = "closest"
    /\ batch_size = 0
    /\ context_tuple_batches = <<>>
    /\ batch_i = 0
    /\ losses = <<>>
    /\ \E shape \in ClosestShapes :
          /\ vocabulary \in SetOrders({ClosestWords[n] : n \in 1..shape[1]})
          /\ embeddings_target \in [0..(shape[1] - 1) -> [1..shape[2] -> ClosestValues]]
    /\ word_to_index = WordToIndex(vocabulary)
    /\ index_to_word = IndexToWord(vocabulary)
    /\ embeddings_context = <<>>
    /\ forward_args = <<>>
    /\ forward_out = <<>>
    /\ closest_args \in [word : Range(vocabulary), topn : TopnValues]
    /\ closest_out = <<>>

call_get_closest_word ==
    /\ cell = "closest"
    /\ closest_out = <<>>
    /\ closest_out' = <<get_closest_word(closest_args.word, closest_args.topn)>>
    /\ UNCHANGED <<pairVars, cell, esVars, trainVars, embeddings_target,
                   embeddings_context, forward_args, forward_out, closest_args,
                   prepVars>>

ClosestNext == call_get_closest_word

SpecClosest == ClosestInit /\ [][ClosestNext]_vars

(***************************************************************************)
(* Data preparation, in the order of the notebook's cells: subsampling     *)
(* (lines 100-110, 122), the vocabulary (lines 123-126), the negative      *)
(* sampler (lines 432-445) and the triples (lines 484-495).                *)
(***************************************************************************)
Count(flat, word) == Cardinality({n \in 1..Len(flat) : flat[n] = word})

\* random.random() < (1+sqrt(p*1e3))*1e-3/p can be false only when the
\* right-hand side is below 1, that is (with x = 1000p = 1000*c/n) when
\* sqrt(x) < x - 1; it can always be true.
MayDrop(c, n) ==
    /\ 1000 * c > n
    /\ (1000 * c) * (1000 * c) - 3 * (1000 * c) * n + n * n > 0

RECURSIVE FilterText(_, _, _)
FilterText(text, keep, offset) ==
    IF text = <<>> THEN <<>>
    ELSE (IF keep[offset + 1] THEN <<Head(text)>> ELSE <<>>)
         \o FilterText(Tail(text), keep, offset + 1)

RECURSIVE FilterCorpus(_, _, _)
FilterCorpus(c, keep, offset) ==
    IF c = <<>> THEN <<>>
    ELSE <<FilterText(Head(c), keep, offset)>>
         \o FilterCorpus(Tail(c), keep, offset + Len(Head(c)))

\* Every corpus subsample_frequent_words(c) can return: keep[n] is the
\* outcome of the n-th random.random() comparison, in corpus order.
subsample_frequent_words(c) ==
    LET flat == Chain(c)
    IN {FilterCorpus(c, keep, 0) :
           keep \in {k \in [1..Len(flat) -> BOOLEAN] :
                        \A n \in 1..Len(flat) :
                            ~k[n] => MayDrop(Count(flat, flat[n]), Len(flat))}}

\* The keys of Counter(flat), in insertion order: by first occurrence.
RECURSIVE CounterKeys(_, _)
CounterKeys(flat, seen) ==
    IF flat = <<>> THEN <<>>
    ELSE IF Head(flat) \in seen THEN CounterKeys(Tail(flat), seen)
    ELSE <<Head(flat)>> \o CounterKeys(Tail(flat), seen \cup {Head(flat)})

\* v**0.75 in tenths, rounded down: the r with r^4 <= 10^4 * v^3 < (r+1)^4.
Pow075(v) ==
    CHOOSE r \in 0..(10 * v) :
        /\ r * r * r * r <= 10000 * v * v * v
        /\ (r + 1) * (r + 1) * (r + 1) * (r + 1) > 10000 * v * v * v

SamplerCorpusRaw == raw_corpus

\* The corpus sample_negative reads: the global `corpus` (line 434).
SamplerCorpus == corpus

\* Lines 433-438, run by the generator's first next(): the distribution.
SamplerStart(g) ==
    LET flat == Chain(SamplerCorpus)
        words == CounterKeys(flat, {})
        normalizing_factor == SumSeq([n \in 1..Len(words) |-> Pow075(Count(flat, words[n]))])
    IN [g EXCEPT !.started = TRUE,
                 !.words = words,
                 !.sample_probability =
                     [n \in 1..Len(words) |->
                         Rat(Pow075(Count(flat, words[n])), normalizing_factor)],
                 !.computed = g.computed + 1]

RECURSIVE Repeat(_, _)
Repeat(word, count) == IF count = 0 THEN <<>> ELSE <<word>> \o Repeat(word, count - 1)

RECURSIVE WordList(_, _, _)
WordList(words, sampled_index, index) ==
    IF index > Len(words) THEN <<>>
    ELSE Repeat(words[index], sampled_index[index])
         \o WordList(words, sampled_index, index + 1)

\* A draw whose counts may add up to less than size.
MultinomialUpTo(size, probabilities) ==
    {c \in [1..Len(probabilities) -> 0..size] :
        /\ SumSeq(c) <= size
        /\ \A n \in 1..Len(probabilities) : probabilities[n].num = 0 => c[n] = 0}

\* multinomial(sample_size, probabilities): every vector of counts summing
\* to sample_size that gives 0 to an entry of probability 0.
Multinomial(size, probabilities) ==
    {c \in [1..Len(probabilities) -> 0..size] :
        /\ SumSeq(c) = size
        /\ \A n \in 1..Len(probabilities) : probabilities[n].num = 0 => c[n] = 0}

\* Lines 440-445: the word lists one pass of the generator's loop can yield.
SamplerYields(g) ==
    {WordList(g.words, sampled_index, 1) :
        sampled_index \in Multinomial(g.sample_size, g.sample_probability)}

PrepTokens == {"a", "b"}

\* The sample_size values the model passes to sample_negative.
SampleSizes == {1, 2}

WindowNeg == 2

\* The corpora as loaded: every document holds at least one token.
PrepInit ==
    /\ raw_corpus \in CorporaOf(PrepTokens, 1, MaxPrepTokens, MaxPrepDocs)
    /\ corpus = raw_corpus
    /\ w = 0
    /\ context_tuple_list = <<>>
    /\ appended_at = <<>>
    /\ negative_samples = <<>>
    /\ vocabulary = <<>>
    /\ word_to_index = <<>>
    /\ index_to_word = <<>>
    /\ batch_size = 0
    /\ context_tuple_batches = <<>>
    /\ batch_i = 0
    /\ losses = <<>>
    /\ EsIdle
    /\ NetIdle
    /\ cell = "loaded"

\* Line 122.
Subsample ==
    /\ cell = "loaded"
    /\ corpus' \in subsample_frequent_words(corpus)
    /\ cell' = "subsampled"
    /\ UNCHANGED <<w, context_tuple_list, appended_at, esVars, trainVars, netVars,
                   prepVars>>

\* Lines 123-126: the set is built, and both dictionaries are made from
\* enumerate(vocabulary), which goes through the set in the order it iterates.
BuildVocabulary ==
    /\ cell = "subsampled"
    /\ vocabulary' \in SetOrders(Range(Chain(corpus)))
    /\ word_to_index' = WordToIndex(vocabulary')
    /\ index_to_word' = IndexToWord(vocabulary')
    /\ cell' = "vocabulary"
    /\ UNCHANGED <<pairVars, esVars, batch_size, context_tuple_batches, batch_i,
                   losses, netVars, prepVars>>

\* Lines 484-486: the generator object is made; its body has not run yet.
CreateSampler ==
    /\ cell = "vocabulary"
    /\ context_tuple_list' = <<>>
    /\ w' = WindowNeg
    /\ \E sample_size \in SampleSizes :
          negative_samples' = [started |-> FALSE, sample_size |-> sample_size,
                               words |-> <<>>, sample_probability |-> <<>>,
                               computed |-> 0, draws |-> 0]
    /\ cell' = "triples"
    /\ UNCHANGED <<corpus, appended_at, esVars, trainVars, netVars, raw_corpus>>

\* Lines 488-494: one append of (word, text[j], next(negative_samples)).
AppendTriple ==
    /\ cell = "triples"
    /\ Len(context_tuple_list) < Len(Appends(corpus, w))
    /\ LET p == Appends(corpus, w)[Len(context_tuple_list) + 1]
           text == corpus[p[1]]
           word == At(text, p[2])
           g == IF negative_samples.started THEN negative_samples
                ELSE SamplerStart(negative_samples)
       IN /\ \E word_list \in SamplerYields(g) :
                context_tuple_list' =
                    Append(context_tuple_list, <<word, At(text, p[3]), word_list>>)
          /\ negative_samples' = [g EXCEPT !.draws = g.draws + 1]
          /\ appended_at' = Append(appended_at, p)
    /\ UNCHANGED <<corpus, w, cell, esVars, trainVars, netVars, raw_corpus>>

\* Line 495.
TriplesDone ==
    /\ cell = "triples"
    /\ Len(context_tuple_list) = Len(Appends(corpus, w))
    /\ cell' = "triples_done"
    /\ UNCHANGED <<pairVars, esVars, trainVars, netVars, prepVars>>

PrepNext ==
    Subsample \/ BuildVocabulary \/ CreateSampler \/ AppendTriple \/ TriplesDone

SpecPrep == PrepInit /\ [][PrepNext]_vars

(***************************************************************************)
(* Claims about context-pair generation (checked under SpecPairs).         *)
(***************************************************************************)
ContextPositionsOf(d, i) ==
    {appended_at[n][3] : n \in {m \in 1..Len(appended_at) :
                                   appended_at[m][1] = d /\ appended_at[m][2] = i}}

ContextTokensOf(word) ==
    {context_tuple_list[n][2] : n \in {m \in 1..Len(context_tuple_list) :
                                          context_tuple_list[m][1] = word}}

\* C1: when generation has finished, a target with at least w tokens on each
\* side is paired with exactly the w positions before it and the w positions
\* after it; for the document [a,b,c,d,e] with window 2 the target c has the
\* context set {a,b,d,e}.
C1_SymmetricWindow ==
    cell = "pairs_done" =>
        /\ \A d \in 1..Len(corpus) :
             \A i \in 0..(Len(corpus[d]) - 1) :
                (i - w >= 0 /\ i + w <= Len(corpus[d]) - 1) =>
                    ContextPositionsOf(d, i) = ((i - w)..(i + w)) \ {i}
        /\ (corpus = ExampleCorpus /\ w = 2) =>
               ContextTokensOf("c") = {"a", "b", "d", "e"}

ExpectedPositions ==
    {p \in UNION {{<<d, i, j>> : i \in 0..(Len(corpus[d]) - 1),
                                 j \in 0..(Len(corpus[d]) - 1)} :
                  d \in 1..Len(corpus)} :
        /\ (IF p[2] - w > 0 THEN p[2] - w ELSE 0) <= p[3]
        /\ p[3] < (IF p[2] + w < Len(corpus[p[1]]) THEN p[2] + w
                   ELSE Len(corpus[p[1]]))
        /\ p[3] # p[2]}

LexLess(p, q) ==
    \/ p[1] < q[1]
    \/ p[1] = q[1] /\ p[2] < q[2]
    \/ p[1] = q[1] /\ p[2] = q[2] /\ p[3] < q[3]

Rank(p) == Cardinality({q \in ExpectedPositions : LexLess(q, p)}) + 1

C3_TokensDiffer ==
    \A n \in 1..Len(context_tuple_list) :
        context_tuple_list[n][1] # context_tuple_list[n][2]

\* C3 (amended): in every appended pair the target position differs from the
\* context position, and the two tokens are equal only when that token occurs
\* at two different positions, less than w+1 apart, of one document.
C3_PositionsDiffer ==
    \A n \in 1..Len(context_tuple_list) :
        /\ appended_at[n][2] # appended_at[n][3]
        /\ context_tuple_list[n][1] = context_tuple_list[n][2] =>
              \E d \in 1..Len(corpus) :
                 \E i \in 1..Len(corpus[d]) :
                    \E j \in 1..Len(corpus[d]) :
                       /\ i # j
                       /\ i - j <= w
                       /\ j - i <= w
                       /\ corpus[d][i] = context_tuple_list[n][1]
                       /\ corpus[d][j] = context_tuple_list[n][1]

\* C3 witness: a pair whose target and context are the same token has been
\* appended (the token occurs twice within one window).
C3_Witness ==
    \E n \in 1..Len(context_tuple_list) :
        /\ context_tuple_list[n][1] = context_tuple_list[n][2]
        /\ appended_at[n][2] # appended_at[n][3]

(***************************************************************************)
(* Claims about EarlyStopping (checked under SpecES).                      *)
(***************************************************************************)
\* C4: stop_training called while fewer than 2 losses are recorded (on a
\* fresh instance, or after exactly one update_loss) returns False.
C4_FalseBelowTwoLosses ==
    (stop_result # "none" /\ Len(loss_list) < 2) => stop_result = "False"

WindowHigh ==
    CHOOSE x \in Range(loss_list) :
        \A y \in Range(loss_list) : y.num * x.den <= x.num * y.den

WindowLow ==
    CHOOSE x \in Range(loss_list) :
        \A y \in Range(loss_list) : x.num * y.den <= y.num * x.den

\* (max - min) / max < min_percent_gain argument / 100, losses positive.
WindowRatioBelowPercent ==
    (WindowHigh.num * WindowLow.den - WindowLow.num * WindowHigh.den)
        * arg_min_percent_gain.den * 100
    < arg_min_percent_gain.num * WindowHigh.num * WindowLow.den

\* C5: with at least 2 losses in the window, stop_training returns True
\* exactly when (max(window) - min(window)) / max(window) is strictly below
\* the constructor's min_percent_gain taken as a percentage.
C5_StopIffRatioBelowPercent ==
    (stop_result # "none" /\ Len(loss_list) >= 2) =>
        /\ stop_result \in {"True", "False"}
        /\ stop_result = "True" <=> WindowRatioBelowPercent

\* C5 witness: stop_training has returned True on a window of at least two
\* different losses with min_percent_gain=1 (8.4 then 8.39: 0.12% < 1%).
C5_Witness ==
    /\ stop_result = "True"
    /\ Len(loss_list) >= 2
    /\ arg_min_percent_gain = Rat(1, 1)
    /\ WindowHigh # WindowLow

\* C6: the window holds at most `patience` losses, and they are the most
\* recent min(n, patience) losses fed, in the order fed.
C6_WindowIsMostRecent ==
    /\ Len(loss_list) <= patience
    /\ Len(loss_list) = (IF Len(fed) < patience THEN Len(fed) ELSE patience)
    /\ \A n \in 1..Len(loss_list) :
          loss_list[n] = fed[Len(fed) - Len(loss_list) + n]

\* C6 witness: more losses were fed than the window holds, so at least two
\* have been evicted, and the window still holds several.
C6_Witness ==
    /\ patience >= 2
    /\ Len(fed) >= patience + 2
    /\ Len(loss_list) = patience
    /\ loss_list[1] # loss_list[2]

\* Each loss is lower than its predecessor by more than the threshold
\* fraction (min_percent_gain argument / 100) of the predecessor.
FedInLargeDecreasingSteps ==
    \A n \in 2..Len(fed) :
        /\ fed[n].num * fed[n - 1].den < fed[n - 1].num * fed[n].den
        /\ (fed[n - 1].num * fed[n].den - fed[n].num * fed[n - 1].den)
               * arg_min_percent_gain.den * 100
           > arg_min_percent_gain.num * fed[n - 1].num * fed[n].den

\* C7: while the positive losses fed so far decrease in large steps,
\* stop_training called after an update does not return True.
C7_NoStopOnLargeSteps ==
    (FedInLargeDecreasingSteps /\ Len(fed) >= 1 /\ stop_result # "none") =>
        stop_result = "False"

\* C7 witness: four or more losses fed in large decreasing steps, more than
\* the window holds, and stop_training has answered.
C7_Witness ==
    /\ FedInLargeDecreasingSteps
    /\ Len(fed) >= 4
    /\ patience >= 2
    /\ Len(fed) > patience
    /\ stop_result = "False"

(***************************************************************************)
(* Claims about the training loop (checked under SpecTrain).               *)
(***************************************************************************)
\* (max - min) / max of the window is below min_percent_gain / 100; false
\* when a loss in the window is nan.
TrainWindowRatioBelowPercent ==
    /\ \A x \in Range(loss_list) : x.den # 0
    /\ WindowRatioBelowPercent

\* C8: the loop is in STOPPED only at the end of an epoch (every batch of the
\* epoch done), after that epoch's mean loss became the newest loss of the
\* window and stop_training returned True on it; so a run is never in
\* STOPPED while the window's relative gain is not below the threshold, and
\* STOPPED is entered from nowhere but the end of an epoch.
C8_StoppedOnlyByEarlyStopping ==
    cell = "STOPPED" =>
        /\ batch_i = Len(context_tuple_batches)
        /\ Len(losses) = Len(context_tuple_batches)
        /\ Len(fed) >= 2
        /\ fed[Len(fed)] = Mean(losses)
        /\ loss_list[Len(loss_list)] = Mean(losses)
        /\ stop_result = "True"
        /\ Len(loss_list) >= 2
        /\ TrainWindowRatioBelowPercent

\* C8 witness: a run has stopped after three epochs of two batches each.
C8_Witness ==
    /\ cell = "STOPPED"
    /\ Len(fed) = 3
    /\ Len(context_tuple_batches) = 2
    /\ losses[1] # losses[2]

(***************************************************************************)
(* Claims about the loss (checked under SpecNet).                          *)
(***************************************************************************)
DotProduct(x, y) == SumSeq([d \in 1..Len(x) |-> x[d] * y[d]])

\* -sum_b logsigmoid(s_pos[b]) - sum_b sum_n logsigmoid(-s_neg[b][n]), one
\* term per positive pair and one per negative, in thousandths.
PerNegativeLoss ==
    LET rows == 1..Len(forward_args.target)
        t(b) == embeddings_target[forward_args.target[b]]
        c(b) == embeddings_context[forward_args.context[b]]
        ng(b, n) == embeddings_context[forward_args.negative[b][n]]
    IN - SumSeq([b \in rows |-> LogSigmoidMilli(DotProduct(t(b), c(b)))])
       - SumSeq([b \in rows |->
                    SumSeq([n \in 1..Len(forward_args.negative[b]) |->
                               LogSigmoidMilli(-DotProduct(ng(b, n), t(b)))])])

\* C9: the loss forward returns has one log-sigmoid term per positive pair
\* and one log-sigmoid term per individual negative.
C9_OneTermPerNegative ==
    forward_out # <<>> => forward_out[1] = PerNegativeLoss

(***************************************************************************)
(* Claims about the negative sampler (checked under SpecPrep).             *)
(***************************************************************************)
Occurrences(c, word) ==
    Cardinality({p \in UNION {{<<d, i>> : i \in 1..Len(c[d])} : d \in 1..Len(c)} :
                    c[p[1]][p[2]] = word})

\* The sampler's distribution gives exactly the words of corpus c a weight,
\* each word count^0.75 over the sum of count^0.75.
DistributionIsOf(c) ==
    LET g == negative_samples
        total == SumSeq([n \in 1..Len(g.words) |-> Pow075(Occurrences(c, g.words[n]))])
    IN /\ Range(g.words) = UNION {Range(c[d]) : d \in 1..Len(c)}
       /\ Len(g.sample_probability) = Len(g.words)
       /\ \A m, n \in 1..Len(g.words) : m # n => g.words[m] # g.words[n]
       /\ \A n \in 1..Len(g.words) :
             g.sample_probability[n] = Rat(Pow075(Occurrences(c, g.words[n])), total)

SamplerMade == negative_samples # <<>>

ComputedOnce ==
    /\ negative_samples.draws = Len(context_tuple_list)
    /\ negative_samples.computed = (IF negative_samples.draws = 0 THEN 0 ELSE 1)
    /\ negative_samples.started <=> negative_samples.draws > 0

\* C10 (as claimed): the distribution is built from the token counts of the
\* corpus before subsampling, once per sampler.
C10_FromRawCorpusOnce ==
    SamplerMade =>
        /\ ComputedOnce
        /\ negative_samples.started => DistributionIsOf(raw_corpus)

\* C10 (amended): the distribution is built from the token counts of the
\* corpus after subsampling (the global `corpus` when the first draw is
\* taken), weight count^0.75 normalised, computed once per sampler, at its
\* first draw, and the same for every later draw.
C10_FromSubsampledCorpusOnce ==
    SamplerMade =>
        /\ ComputedOnce
        /\ negative_samples.started => DistributionIsOf(corpus)

\* C10 witness: two draws were taken from a sampler over two words whose
\* corpus lost a token to subsampling, so that the counts before subsampling
\* give another distribution.
C10_Witness ==
    /\ SamplerMade
    /\ negative_samples.draws >= 2
    /\ corpus # raw_corpus
    /\ Len(negative_samples.words) = 2
    /\ ~DistributionIsOf(raw_corpus)

(***************************************************************************)
(* Claims about the negatives of the context triples (checked under        *)
(* SpecPrep).                                                              *)
(***************************************************************************)
\* How often each word of the set `universe` occurs in word_list.
BagOf(word_list, universe) == [x \in universe |-> Count(word_list, x)]

\* Every way to give the words of `universe` counts that add up to k.
BagsOfSize(k, universe) ==
    LET order == CHOOSE s \in [1..Cardinality(universe) -> universe] :
                     Range(s) = universe
    IN {f \in [universe -> 0..k] :
           SumSeq([n \in 1..Len(order) |-> f[order[n]]]) = k}

PairPending ==
    /\ cell = "triples"
    /\ Len(context_tuple_list) < Len(Appends(corpus, w))

\* The generator as it is when its next draw is taken.
SamplerAtNextDraw ==
    IF negative_samples.started THEN negative_samples
    ELSE SamplerStart(negative_samples)

\* C11: every triple carries exactly sample_size negatives, one draw has been
\* consumed per emitted triple, and while a pair is still to be emitted the
\* sampler can yield: its possible draws are exactly the multisets of
\* sample_size words over all the words of the corpus, duplicates and the
\* pair's own target and context included.
C11_ExactlyKNegativesPerTriple ==
    SamplerMade =>
        /\ negative_samples.draws = Len(context_tuple_list)
        /\ \A n \in 1..Len(context_tuple_list) :
              Len(context_tuple_list[n][3]) = negative_samples.sample_size
        /\ PairPending =>
              LET universe == Range(Chain(corpus))
              IN /\ SamplerYields(SamplerAtNextDraw) # {}
                 /\ {BagOf(y, universe) : y \in SamplerYields(SamplerAtNextDraw)}
                        = BagsOfSize(negative_samples.sample_size, universe)

\* C11 witness: the cell has ended with at least two triples, one of them
\* with two negatives that are both the triple's own target word.
C11_Witness ==
    /\ cell = "triples_done"
    /\ Len(context_tuple_list) >= 2
    /\ negative_samples.draws = Len(context_tuple_list)
    /\ \E n \in 1..Len(context_tuple_list) :
          context_tuple_list[n][3] = <<context_tuple_list[n][1], context_tuple_list[n][1]>>

(***************************************************************************)
(* Claims about the vocabulary (checked under SpecPrep).                   *)
(***************************************************************************)
VocabularyBuilt == cell \in {"vocabulary", "triples", "triples_done"}

\* C12: once the vocabulary cell has run on a corpus with at least one
\* token, word_to_index gives every token of the corpus one index in
\* 0..V-1 (V the number of distinct tokens), different tokens different
\* indices, and index_to_word is its inverse in both directions.
C12_IndexRoundTrip ==
    (VocabularyBuilt /\ Chain(corpus) # <<>>) =>
        LET tokens == Range(Chain(corpus))
            V == Cardinality(tokens)
        IN /\ DOMAIN word_to_index = tokens
           /\ DOMAIN index_to_word = 0..(V - 1)
           /\ \A t \in tokens : word_to_index[t] \in 0..(V - 1)
           /\ \A t, u \in tokens : t # u => word_to_index[t] # word_to_index[u]
           /\ \A t \in tokens : index_to_word[word_to_index[t]] = t
           /\ \A i \in 0..(V - 1) : word_to_index[index_to_word[i]] = i

\* C12 witness: the vocabulary of a corpus that lost a token to subsampling
\* holds two words, numbered against their order of first occurrence.
C12_Witness ==
    /\ cell = "vocabulary"
    /\ corpus # raw_corpus
    /\ Len(vocabulary) = 2
    /\ Chain(corpus)[1] = "a"
    /\ word_to_index["a"] = 1
    /\ index_to_word[0] = "b"

\* C13: the vocabulary cell fails with EmptyVocabularyError exactly on a
\* corpus with no tokens: it never completes on such a corpus, and it stops
\* with that error on no other.
C13_EmptyVocabularyError ==
    /\ VocabularyBuilt => Chain(corpus) # <<>>
    /\ cell = "EmptyVocabularyError" => Chain(corpus) = <<>>

(***************************************************************************)
(* Claims about get_closest_word (checked under SpecClosest).              *)
(***************************************************************************)
\* The distance of a vocabulary token from the query token.
DistanceFromQuery(token) ==
    PairwiseDistance(embeddings_target[word_to_index[closest_args.word]],
                     embeddings_target[word_to_index[token]])

\* C14: for a vocabulary token and topn >= 0 the result has min(topn, V-1)
\* (token, distance) entries, each a vocabulary token other than the query
\* with its distance from the query, no token twice, distances
\* non-decreasing, tokens at equal distance in the order of their vocabulary
\* indices, and no omitted token strictly nearer than a returned one (an
\* omitted token as near as a returned one has the larger index).
C14_ClosestWords ==
    closest_out # <<>> =>
        LET result == closest_out[1]
            others == Range(vocabulary) \ {closest_args.word}
            returned == {result[n][1] : n \in 1..Len(result)}
        IN /\ Len(result) = Min(closest_args.topn, Len(vocabulary) - 1)
           /\ \A n \in 1..Len(result) :
                 /\ result[n][1] \in others
                 /\ result[n][2] = DistanceFromQuery(result[n][1])
           /\ \A m, n \in 1..Len(result) :
                 m < n =>
                     /\ result[m][1] # result[n][1]
                     /\ ~DistanceLt(result[n][2], result[m][2])
                     /\ result[m][2] = result[n][2] =>
                            word_to_index[result[m][1]] < word_to_index[result[n][1]]
           /\ \A t \in others \ returned : \A n \in 1..Len(result) :
                 /\ ~DistanceLt(DistanceFromQuery(t), result[n][2])
                 /\ DistanceFromQuery(t) = result[n][2] =>
                        word_to_index[result[n][1]] < word_to_index[t]

\* C14 witness: a call with topn = 2 on a vocabulary of four tokens returned
\* two tokens at equal distance and left out a third at that same distance;
\* the vocabulary does not iterate in alphabetical order.
C14_Witness ==
    /\ closest_out # <<>>
    /\ closest_args.topn = 2
    /\ Len(vocabulary) = 4
    /\ Len(closest_out[1]) = 2
    /\ closest_out[1][1][2] = closest_out[1][2][2]
    /\ \E t \in Range(vocabulary) \ {closest_args.word} :
          /\ \A n \in 1..2 : closest_out[1][n][1] # t
          /\ DistanceFromQuery(t) = closest_out[1][1][2]
    /\ vocabulary # ClosestWords

(***************************************************************************)
(* Claims about get_batches (checked under SpecBatches).                   *)
(***************************************************************************)
\* The number of rows, the same for the three tensors of a batch.
BatchRows(batch) == Len(batch.target)

\* After the call: there are ceil(n / batch_size) batches, every batch but
\* the last has batch_size rows and the last has the rest (at least one),
\* and row r of batch k holds the indices of the target, the context and
\* the negatives of the triple at place (k-1)*batch_size + r of the shuffled
\* list, so that every triple is in exactly one batch.
BatchesAreSlices ==
    cell = "batched" =>
        LET n == Len(context_tuple_list)
            count == Len(context_tuple_batches)
        IN /\ count = (n + batch_size - 1) \div batch_size
           /\ \A k \in 1..count :
                 LET batch == context_tuple_batches[k]
                 IN /\ BatchRows(batch) =
                           (IF k < count THEN batch_size ELSE n - (count - 1) * batch_size)
                    /\ BatchRows(batch) >= 1
                    /\ Len(batch.context) = BatchRows(batch)
                    /\ Len(batch.negative) = BatchRows(batch)
                    /\ \A r \in 1..BatchRows(batch) :
                          LET t == context_tuple_list[(k - 1) * batch_size + r]
                          IN /\ batch.target[r] = word_to_index[t[1]]
                             /\ batch.context[r] = word_to_index[t[2]]
                             /\ batch.negative[r] =
                                    [m \in 1..Len(t[3]) |-> word_to_index[t[3][m]]]

\* The call leaves in the caller's list the triples it held, each as often.
SameTriples ==
    \A t \in BatchTriples : Count(context_tuple_list', t) = Count(context_tuple_list, t)

\* C15: get_batches with batch_size >= 1 cuts the shuffled list into
\* consecutive batches of batch_size triples (the last may be shorter, none
\* is empty), rows aligned, and permutes the caller's list without changing
\* which triples it holds.
C15_BatchesPartitionTheList == []BatchesAreSlices /\ [][SameTriples]_vars

\* C15 witness: a list of three different triples was reordered by the call
\* and cut with batch_size 2 into a full batch and a batch of one.
C15_Witness ==
    /\ cell = "batched"
    /\ batch_size = 2
    /\ Len(context_tuple_list) = 3
    /\ Range(context_tuple_list) = BatchTriples
    /\ context_tuple_list[1] = <<"a", "a", <<"b", "a">> >>
    /\ Len(context_tuple_batches) = 2
    /\ BatchRows(context_tuple_batches[2]) = 1

(***************************************************************************)
(* Claims about the words of the triples (checked under SpecPrep).         *)
(***************************************************************************)
\* The keys get_batches looks up in word_to_index for a list of triples
\* (lines 393-395): each triple's target, context and negatives.
LookupsOf(list) ==
    UNION {{list[n][1], list[n][2]} \cup Range(list[n][3]) : n \in 1..Len(list)}

\* C16: every word of every context triple (target, context, negatives) is a
\* key of word_to_index, so no lookup of get_batches fails; and the words the
\* sampler draws from, once its first draw is taken, are all keys too.
C16_TripleWordsAreIndexed ==
    SamplerMade =>
        /\ LookupsOf(context_tuple_list) \subseteq DOMAIN word_to_index
        /\ negative_samples.started =>
              Range(negative_samples.words) \subseteq DOMAIN word_to_index

\* C16 witness: the triples are complete for a corpus of two words that lost
\* a token to subsampling, and the negatives of some triple hold both words.
C16_Witness ==
    /\ cell = "triples_done"
    /\ corpus # raw_corpus
    /\ DOMAIN word_to_index = {"a", "b"}
    /\ Len(context_tuple_list) >= 2
    /\ \E n \in 1..Len(context_tuple_list) :
          Range(context_tuple_list[n][3]) = {"a", "b"}

(***************************************************************************)
(* Claims about the order of an epoch's steps (checked under SpecTrain).   *)
(***************************************************************************)
\* Within an epoch one loss has been recorded per batch done; after an
\* epoch every batch of it has been done once, its mean loss is the last
\* loss given to update_loss, stop_training has answered on the window that
\* holds it, and the loop has stopped only after two or more epochs.
EpochState ==
    /\ cell = "for" =>
          /\ batch_i <= Len(context_tuple_batches)
          /\ Len(losses) = batch_i
    /\ cell \in {"while", "STOPPED"} =>
          /\ batch_i = Len(context_tuple_batches)
          /\ Len(losses) = Len(context_tuple_batches)
          /\ fed # <<>>
          /\ fed[Len(fed)] = Mean(losses)
          /\ loss_list[Len(loss_list)] = Mean(losses)
          /\ stop_result = (IF cell = "STOPPED" THEN "True" ELSE "False")
    /\ cell = "STOPPED" => Len(fed) >= 2
    /\ cell \in {"INIT", "for", "while", "STOPPED"}

\* Batches are done one at a time, in order; update_loss is called only at
\* the end of an epoch, once, with the mean of that epoch's losses, and
\* every epoch that ends has called it.
EpochStep ==
    /\ batch_i' # batch_i =>
          \/ /\ cell = "for" /\ cell' = "for"
             /\ batch_i' = batch_i + 1
             /\ Len(losses') = Len(losses) + 1
             /\ fed' = fed
          \/ /\ cell # "for" /\ cell' = "for"
             /\ batch_i' = 0
             /\ losses' = <<>>
             /\ fed' = fed
    /\ fed' # fed =>
          /\ cell = "for" /\ cell' # "for"
          /\ batch_i = Len(context_tuple_batches)
          /\ fed' = Append(fed, Mean(losses))
    /\ (cell = "for" /\ cell' # "for") => Len(fed') = Len(fed) + 1

====
